---- MODULE Spec2Model ----
(***************************************************************************)
(* A model of src/bddoc.py: the batch driver process_excel_file, the       *)
(* per-row procedure process_row and the lookups it calls                  *)
(* (search_online_bdgest, get_bedetheque_link_from_album, get_cover_url),  *)
(* with the operator prompt wait_for_user and the cover check              *)
(* is_valid_cover.  One step of the model is one externally visible step   *)
(* of the program: a fetch, a prompt (with the sleep that follows it), a   *)
(* step of the scan of the search results, the audit-log append, the       *)
(* persist of the table.  The web site, the operator and the input file    *)
(* are the environment: their answers are drawn from small sets.           *)
(***************************************************************************)
EXTENDS Integers, Sequences, FiniteSets, TLC

(***************************************************************************)
(* Program constants.                                                      *)
(***************************************************************************)
MIN_COVER_LENGTH == 15
DATA_START == 3
RESULT_LIMIT == 3
COVER_COL == 24
BASE_URL == "https://online.bdgest.com"
IMPORT_URL == BASE_URL \o "/albums/import"
SEARCH_URL == BASE_URL \o "/albums/import"

(***************************************************************************)
(* Bound of the model: the number of rows below the header rows.           *)
(***************************************************************************)
MaxData == 2

(***************************************************************************)
(* Cell values.  A cell is a string, or NaN (an empty spreadsheet cell as  *)
(* pandas reads it).  None is Python's None / an empty result.             *)
(***************************************************************************)
NaN == "<NaN>"
None == ""
isna(v) == v = NaN

IsSpace(c) == c \in {" ", "\t", "\n"}

RECURSIVE lstrip(_)
lstrip(s) ==
    IF s = "" THEN ""
    ELSE IF IsSpace(SubSeq(s, 1, 1)) THEN lstrip(SubSeq(s, 2, Len(s)))
    ELSE s

RECURSIVE rstrip(_)
rstrip(s) ==
    IF s = "" THEN ""
    ELSE IF IsSpace(SubSeq(s, Len(s), Len(s))) THEN rstrip(SubSeq(s, 1, Len(s) - 1))
    ELSE s

strip(s) == rstrip(lstrip(s))

UPPERCASE == "ABCDEFGHIJKLMNOPQRSTUVWXYZ"
LOWERCASE == "abcdefghijklmnopqrstuvwxyz"

lowerChar(c) ==
    IF \E i \in 1..Len(UPPERCASE) : SubSeq(UPPERCASE, i, i) = c
    THEN LET i == CHOOSE j \in 1..Len(UPPERCASE) : SubSeq(UPPERCASE, j, j) = c
         IN  SubSeq(LOWERCASE, i, i)
    ELSE c

RECURSIVE lower(_)
lower(s) ==
    IF s = "" THEN ""
    ELSE lowerChar(SubSeq(s, 1, 1)) \o lower(SubSeq(s, 2, Len(s)))

startswith(s, p) == Len(s) >= Len(p) /\ SubSeq(s, 1, Len(p)) = p

contains(s, sub) ==
    \E i \in 1..(Len(s) - Len(sub) + 1) : SubSeq(s, i, i + Len(sub) - 1) = sub

\* Variant of CellText: the .strip() is missing.
CellText_nostrip(v) == IF isna(v) THEN "" ELSE v

\* str(cell) if not pd.isna(cell) else "", then .strip()
CellText(v) == IF isna(v) THEN "" ELSE strip(v)

\* Variant of is_valid_cover: a strict length comparison.
is_valid_cover_gt(cover) ==
    IF isna(cover) THEN FALSE
    ELSE LET cover_str == strip(cover)
         IN  Len(cover_str) > MIN_COVER_LENGTH /\ startswith(cover_str, "http")

is_valid_cover(cover) ==
    IF isna(cover) THEN FALSE
    ELSE LET cover_str == strip(cover)
         IN  Len(cover_str) >= MIN_COVER_LENGTH /\ startswith(cover_str, "http")

\* Variant of wait_for_user: the test of interactive_mode is missing.
wait_for_user_unguarded(interactive_mode, user_input) ==
    [prompted |-> TRUE, mode |-> ~(lower(strip(user_input)) = "go")]

\* The value wait_for_user returns, and whether it read a line from the operator.
wait_for_user(interactive_mode, user_input) ==
    IF interactive_mode
    THEN [prompted |-> TRUE,
          mode |-> IF lower(strip(user_input)) = "go" THEN FALSE ELSE interactive_mode]
    ELSE [prompted |-> FALSE, mode |-> interactive_mode]


(***************************************************************************)
(* The environment's values.                                               *)
(***************************************************************************)
\* Display texts of search results; a result's direct link and the link on
\* its album page lead to the series of that text.
Texts == {"Tintin", "Asterix"}
BedeUrl(text) == "https://www.bedetheque.com/serie-" \o text \o ".html"
AlbumHref(text) == "/album/" \o text
OtherHref(text) == "/serie/" \o text
Hrefs(text) == {BedeUrl(text), AlbumHref(text), OtherHref(text)}
urljoin(base, href) == base \o href

\* What the cover extraction of lines 291-330 yields for a fetched page: an
\* absolute URL, a relative src returned as it is (line 310), or nothing.
AbsCover == "https://www.bedetheque.com/media/tintin.jpg"
RelCover == "covers/tintin.jpg"
CoverPages == {None, AbsCover, RelCover}

\* What the operator may type at a prompt.
UserInputs == {"", "go", " GO "}

LinkA == "https://www.bedetheque.com/serie-Tintin.html"
Cover15 == "http://x.io/a.j"
Cover14 == "http://x.io/a."

Cell(t, l, c) == [title |-> t, link |-> l, cover |-> c]
HeaderRow == Cell("Titre", "URL", "Couverture")
DataRows ==
    { Cell(NaN, NaN, NaN),
      Cell("  ", NaN, NaN),
      Cell("Tintin", LinkA, " " \o Cover15 \o " "),
      Cell("Tintin", " " \o LinkA \o " ", NaN),
      Cell("Tintin", LinkA, Cover14),
      Cell("Tintin", LinkA, RelCover),
      Cell(" tintin ", NaN, NaN),
      Cell("Asterix", " ", RelCover) }

RECURSIVE Tables(_)
Tables(n) ==
    IF n = 0 THEN { << >> }
    ELSE { Append(t, r) : t \in Tables(n - 1), r \in DataRows }

Headers(n) == [i \in 1..n |-> HeaderRow]
InputTables ==
    { Headers(DATA_START - 1) } \cup
    { Headers(DATA_START) \o t : t \in UNION { Tables(n) : n \in 0..MaxData } }

Absent == << >>

(***************************************************************************)
(* State.                                                                  *)
(***************************************************************************)
VARIABLES
    input_file,        \* the table in the input file
    ncols,             \* len(df.columns)
    df,                \* the in-memory table
    output_file,       \* the table in the output file, Absent before the first write
    log_file,          \* the audit log: the lines appended by log_to_file
    interactive_mode,  \* process_excel_file's interactive_mode
    pc,                \* where the run is
    index,             \* the loop variable of process_excel_file
    row,               \* the locals of process_row
    call,              \* the locals of the lookup being executed
    ev,                \* what the last step did: a subset of {"fetch","fail","prompt","sleep"}
    delayed,           \* a sleep has happened since the last fetch made in non-interactive mode
    nMut,              \* the number of df.at writes so far
    nSame,             \* how many of them stored the value the cell already held
    calls,             \* the lookups process_row has called for the current row
    failed,            \* the fetches that failed for the last row entered
    acc,               \* the scan of the search results: what was accepted, what was passed over
    startMode,         \* the mode the run started in
    goTyped            \* the operator has answered 'go' at a prompt of this run

vars == << input_file, ncols, df, output_file, log_file, interactive_mode, pc, index,
           row, call, ev, delayed, nMut, nSame, calls, failed, acc, startMode, goTyped >>

Row(d, i) == d[i + 1]
at(d, i, col, v) == [d EXCEPT ![i + 1][col] = v]

NoRow == [comic_name |-> "", current_link |-> "", current_cover |-> "",
          branch |-> "none", new_link |-> None, search_url |-> "", cover_url |-> "",
          updated |-> FALSE, file_status |-> ""]
NoCall == [im |-> FALSE, url |-> "", page |-> None, rpos |-> 0,
           text |-> "", ret |-> None, ret_url |-> ""]
NoAcc == [text |-> "", passed |-> FALSE]

Init ==
    /\ input_file \in InputTables
    /\ ncols \in {COVER_COL, COVER_COL + 1}
    /\ df = << >>
    /\ output_file = Absent
    /\ log_file = << >>
    /\ interactive_mode \in BOOLEAN
    /\ startMode = interactive_mode
    /\ goTyped = FALSE
    /\ pc = "load"
    /\ index = 0
    /\ row = NoRow
    /\ call = NoCall
    /\ ev = {}
    /\ delayed = TRUE
    /\ nMut = 0
    /\ nSame = 0
    /\ calls = << >>
    /\ failed = {}
    /\ acc = NoAcc

(***************************************************************************)
(* process_excel_file.                                                     *)
(***************************************************************************)
\* Lines 425-434: read the file; df.iloc[2] needs three rows, the layout
\* check needs COVER_COL + 1 columns.  Either exception ends the run.
Load ==
    /\ pc = "load"
    /\ df' = input_file
    /\ pc' = IF Len(input_file) < DATA_START \/ ncols <= COVER_COL
             THEN "aborted" ELSE "loop"
    /\ ev' = {}
    /\ UNCHANGED << input_file, ncols, output_file, log_file, interactive_mode, index,
                    row, call, delayed, nMut, nSame, calls, failed, acc, startMode, goTyped >>

\* Line 439.
\* Variant of skipped: the header boundary is one row too high.
skipped_lt(i, r) == i < DATA_START - 1 \/ isna(r.title)
skipped(i, r) == i < DATA_START \/ isna(r.title)

\* Lines 437 and 448: the loop goes on to row i, or is over after the last row.
loop_at(i) == IF i < Len(df) THEN "loop" ELSE "done"

SkipRow ==
    /\ pc = "loop"
    /\ index < Len(df)
    /\ skipped(index, Row(df, index))
    /\ index' = index + 1
    /\ pc' = loop_at(index + 1)
    /\ ev' = {}
    /\ UNCHANGED << input_file, ncols, df, output_file, log_file, interactive_mode,
                    row, call, delayed, nMut, nSame, calls, failed, acc, startMode, goTyped >>

\* Line 446 is reached after every call of process_row, updated or not.
\* Variant of persists: the table is saved only after an update.
persists_if_updated(updated) == updated
persists(updated) == TRUE

Persist ==
    /\ pc = "persist"
    /\ output_file' = IF persists(row.updated) THEN df ELSE output_file
    /\ index' = index + 1
    /\ pc' = loop_at(index + 1)
    /\ row' = NoRow
    /\ call' = NoCall
    /\ calls' = << >>
    /\ acc' = NoAcc
    /\ ev' = {}
    /\ UNCHANGED << input_file, ncols, df, log_file, interactive_mode, delayed, nMut, nSame,
                    failed, startMode, goTyped >>


(***************************************************************************)
(* process_row.                                                            *)
(***************************************************************************)
\* Lines 366-384: which case of process_row a row falls in.
\* Variant of branch: a row with a link is skipped whatever its cover.
branch_no_cover_check(current_link, current_cover) ==
    IF current_link # "" THEN "skip" ELSE "search"

branch(current_link, current_cover) ==
    IF current_link # "" /\ is_valid_cover(current_cover) THEN "skip"
    ELSE IF current_link # "" /\ ~is_valid_cover(current_cover) THEN "cover"
    ELSE "search"

\* Lines 339-385: the locals, the early return for an empty title, and the
\* case taken, up to the call of the first lookup.
EnterRow ==
    /\ pc = "loop"
    /\ index < Len(df)
    /\ ~skipped(index, Row(df, index))
    /\ LET comic_name == CellText(Row(df, index).title)
           current_link == CellText(Row(df, index).link)
           current_cover == CellText(Row(df, index).cover)
           b == branch(current_link, current_cover)
           r == [NoRow EXCEPT !.comic_name = comic_name,
                              !.current_link = current_link,
                              !.current_cover = current_cover]
       IN  IF comic_name = ""
           THEN /\ row' = NoRow
                /\ pc' = "persist"
                /\ call' = NoCall
                /\ calls' = << >>
           ELSE /\ row' = [r EXCEPT !.branch = b,
                                    !.file_status =
                                        IF b = "skip" THEN "Skipping (both exist)" ELSE ""]
                /\ pc' = CASE b = "skip" -> "log"
                           [] b = "cover" -> "cover_fetch"
                           [] OTHER -> "import_fetch"
                /\ call' = CASE b = "skip" -> NoCall
                             [] b = "cover" -> [NoCall EXCEPT !.im = interactive_mode,
                                                              !.url = current_link]
                             [] OTHER -> [NoCall EXCEPT !.im = interactive_mode]
                /\ calls' = CASE b = "skip" -> << >>
                              [] b = "cover" -> << [op |-> "cover", arg |-> current_link] >>
                              [] OTHER -> << [op |-> "search", arg |-> comic_name] >>
    /\ failed' = {}
    /\ acc' = NoAcc
    /\ ev' = {}
    /\ UNCHANGED << input_file, ncols, df, output_file, log_file, interactive_mode, index,
                    delayed, nMut, nSame, startMode, goTyped >>

(***************************************************************************)
(* get_cover_url.                                                          *)
(***************************************************************************)
\* Variant of CoverReturned: the cover cell is written whatever came back.
CoverReturned_unconditional(cover_url) ==
    /\ df' = at(df, index, "cover", cover_url)
    /\ nMut' = nMut + 1
    /\ nSame' = IF Row(df, index).cover = cover_url THEN nSame + 1 ELSE nSame
    /\ row' = [row EXCEPT
                 !.cover_url = cover_url,
                 !.updated = TRUE,
                 !.file_status = IF row.branch = "search" THEN "Found (new)"
                                 ELSE "Found (cover)"]
    /\ call' = NoCall
    /\ pc' = "log"

\* Lines 374-381 (case 2) and 389-393 (case 3): get_cover_url has returned
\* cover_url; the cover cell is written if a cover came back.
CoverReturned(cover_url) ==
    /\ df' = IF cover_url # None THEN at(df, index, "cover", cover_url) ELSE df
    /\ nMut' = IF cover_url # None THEN nMut + 1 ELSE nMut
    /\ nSame' = IF cover_url # None /\ Row(df, index).cover = cover_url
                THEN nSame + 1 ELSE nSame
    /\ row' = [row EXCEPT
                 !.cover_url = cover_url,
                 !.updated = (row.branch = "search" \/ cover_url # None),
                 !.file_status =
                     IF row.branch = "search" THEN "Found (new)"
                     ELSE IF cover_url # None THEN "Found (cover)"
                     ELSE "Found (no cover)"]
    /\ call' = NoCall
    /\ pc' = "log"

\* Lines 283-284 and 332-334: the page is fetched; a failure returns None.
CoverFetch ==
    /\ pc = "cover_fetch"
    /\ \/ /\ \E page \in CoverPages : call' = [call EXCEPT !.page = page]
          /\ pc' = "cover_wait"
          /\ ev' = {"fetch"}
          /\ UNCHANGED << df, nMut, nSame, row, failed >>
       \/ /\ CoverReturned(None)
          /\ ev' = {"fetch", "fail"}
          /\ failed' = failed \cup {"cover"}
    /\ delayed' = call.im
    /\ UNCHANGED << input_file, ncols, output_file, log_file, interactive_mode, index,
                    calls, acc, startMode, goTyped >>

\* Lines 286-330: the prompt, the sleep in non-interactive mode, the
\* extraction; the mode the prompt returns stays in get_cover_url.
CoverWait ==
    /\ pc = "cover_wait"
    /\ \E user_input \in UserInputs :
        LET w == wait_for_user(call.im, user_input)
        IN  /\ ev' = (IF w.prompted THEN {"prompt"} ELSE {})
                       \cup (IF ~w.mode THEN {"sleep"} ELSE {})
            /\ delayed' = (delayed \/ ~w.mode)
            /\ goTyped' = (goTyped \/ (w.prompted /\ ~w.mode))
    /\ CoverReturned(call.page)
    /\ UNCHANGED << input_file, ncols, output_file, log_file, interactive_mode, index,
                    calls, failed, acc, startMode >>

(***************************************************************************)
(* search_online_bdgest and get_bedetheque_link_from_album.                *)
(***************************************************************************)
\* What search_online_bdgest returns: (link, search URL, interactive_mode).
SearchReturns(c, link, url) == [NoCall EXCEPT !.im = c.im, !.ret = link, !.ret_url = url]

\* Lines 242-245: what the except clause returns.
SearchFailed(c) == SearchReturns(c, None, IMPORT_URL)

\* Lines 174-175.
ImportFetch ==
    /\ pc = "import_fetch"
    /\ \/ /\ pc' = "import_wait"
          /\ call' = call
          /\ failed' = failed
          /\ ev' = {"fetch"}
       \/ /\ pc' = "search_ret"
          /\ call' = SearchFailed(call)
          /\ failed' = failed \cup {"search"}
          /\ ev' = {"fetch", "fail"}
    /\ delayed' = call.im
    /\ UNCHANGED << input_file, ncols, df, output_file, log_file, interactive_mode, index,
                    row, nMut, nSame, calls, acc, startMode, goTyped >>

\* Line 177.
ImportWait ==
    /\ pc = "import_wait"
    /\ \E user_input \in UserInputs :
        LET w == wait_for_user(call.im, user_input)
        IN  /\ call' = [call EXCEPT !.im = w.mode]
            /\ ev' = IF w.prompted THEN {"prompt"} ELSE {}
            /\ goTyped' = (goTyped \/ (w.prompted /\ ~w.mode))
    /\ pc' = "search_fetch"
    /\ UNCHANGED << input_file, ncols, df, output_file, log_file, interactive_mode, index,
                    row, delayed, nMut, nSame, calls, failed, acc, startMode >>

\* Lines 187-188.
SearchFetch ==
    /\ pc = "search_fetch"
    /\ \/ /\ pc' = "search_wait"
          /\ call' = [call EXCEPT !.ret_url = SEARCH_URL \o "?s=" \o row.comic_name]
          /\ failed' = failed
          /\ ev' = {"fetch"}
       \/ /\ pc' = "search_ret"
          /\ call' = SearchFailed(call)
          /\ failed' = failed \cup {"search"}
          /\ ev' = {"fetch", "fail"}
    /\ delayed' = call.im
    /\ UNCHANGED << input_file, ncols, df, output_file, log_file, interactive_mode, index,
                    row, nMut, nSame, calls, acc, startMode, goTyped >>

\* Lines 190-193.
SearchWait ==
    /\ pc = "search_wait"
    /\ \E user_input \in UserInputs :
        LET w == wait_for_user(call.im, user_input)
        IN  /\ call' = [call EXCEPT !.im = w.mode]
            /\ ev' = (IF w.prompted THEN {"prompt"} ELSE {})
                       \cup (IF ~w.mode THEN {"sleep"} ELSE {})
            /\ delayed' = (delayed \/ ~w.mode)
            /\ goTyped' = (goTyped \/ (w.prompted /\ ~w.mode))
    /\ pc' = "scan"
    /\ UNCHANGED << input_file, ncols, df, output_file, log_file, interactive_mode, index,
                    row, nMut, nSame, calls, failed, acc, startMode >>

\* Line 219: only the first RESULT_LIMIT results are looked at.
in_first_results(rpos) == rpos < RESULT_LIMIT

\* Line 219: the scan goes on to the next result, whose display text is text.
ScanResult ==
    /\ pc = "scan"
    /\ in_first_results(call.rpos)
    /\ \E text \in Texts :
        call' = [call EXCEPT !.rpos = call.rpos + 1, !.text = text]
    /\ ev' = {}
    /\ UNCHANGED << input_file, ncols, df, output_file, log_file, interactive_mode, pc,
                    index, row, delayed, nMut, nSame, calls, failed, acc, startMode, goTyped >>

\* Lines 224 and 229: what is done with an anchor of a result.
\* Variant of link_kind: the test of line 224 is missing.
link_kind_no_direct(href) ==
    IF contains(href, "/album/") THEN "album" ELSE "other"

link_kind(href) ==
    IF contains(href, "bedetheque.com") THEN "direct"
    ELSE IF contains(href, "/album/") THEN "album"
    ELSE "other"

\* Lines 221-234: the next anchor of the current result (a result may hold
\* any number of anchors).
ScanLink ==
    /\ pc = "scan"
    /\ call.rpos >= 1
    /\ \E href \in Hrefs(call.text) :
        LET k == link_kind(href)
        IN  /\ call' = CASE k = "direct" -> SearchReturns(call, href, call.ret_url)
                         [] k = "album" -> [call EXCEPT !.url = urljoin(BASE_URL, href)]
                         [] OTHER -> call
            /\ pc' = CASE k = "direct" -> "search_ret"
                       [] k = "album" -> "album_fetch"
                       [] OTHER -> "scan"
            /\ acc' = IF k = "direct"
                      THEN [acc EXCEPT !.text = call.text]
                      ELSE [acc EXCEPT !.passed =
                                acc.passed \/ (k = "other" /\ contains(href, "bedetheque.com"))]
    /\ ev' = {}
    /\ UNCHANGED << input_file, ncols, df, output_file, log_file, interactive_mode, index,
                    row, delayed, nMut, nSame, calls, failed, startMode, goTyped >>

\* Lines 211-216 and 236-240: no result, or no bedetheque link in the results
\* looked at.
ScanEnd ==
    /\ pc = "scan"
    /\ call' = SearchReturns(call, None, call.ret_url)
    /\ pc' = "search_ret"
    /\ ev' = {}
    /\ UNCHANGED << input_file, ncols, df, output_file, log_file, interactive_mode, index,
                    row, delayed, nMut, nSame, calls, failed, acc, startMode, goTyped >>

\* Lines 250-251 and 267-269: a failure returns None and the scan goes on.
AlbumFetch ==
    /\ pc = "album_fetch"
    /\ \/ /\ \E page \in {None, BedeUrl(call.text)} : call' = [call EXCEPT !.page = page]
          /\ pc' = "album_wait"
          /\ ev' = {"fetch"}
       \/ /\ call' = [call EXCEPT !.url = ""]
          /\ pc' = "scan"
          /\ ev' = {"fetch", "fail"}
    /\ delayed' = call.im
    /\ UNCHANGED << input_file, ncols, df, output_file, log_file, interactive_mode, index,
                    row, nMut, nSame, calls, failed, acc, startMode, goTyped >>

\* Lines 253-265: the prompt, whose answer stays in the callee, and the first
\* bedetheque link of the page; lines 233-234 in the caller.
AlbumWait ==
    /\ pc = "album_wait"
    /\ \E user_input \in UserInputs :
        LET w == wait_for_user(call.im, user_input)
        IN  /\ ev' = IF w.prompted THEN {"prompt"} ELSE {}
            /\ goTyped' = (goTyped \/ (w.prompted /\ ~w.mode))
    /\ IF call.page # None
       THEN /\ call' = SearchReturns(call, call.page, call.ret_url)
            /\ pc' = "search_ret"
            /\ acc' = [acc EXCEPT !.text = call.text]
       ELSE /\ call' = [call EXCEPT !.page = None, !.url = ""]
            /\ pc' = "scan"
            /\ acc' = acc
    /\ UNCHANGED << input_file, ncols, df, output_file, log_file, interactive_mode, index,
                    row, delayed, nMut, nSame, calls, failed, startMode >>

\* Lines 385-396: the mode the search returns becomes the driver's; a link
\* found is written and its cover looked up.
SearchReturn ==
    /\ pc = "search_ret"
    /\ interactive_mode' = call.im
    /\ LET new_link == call.ret
       IN  IF new_link # None
           THEN /\ df' = at(df, index, "link", new_link)
                /\ nMut' = nMut + 1
                /\ nSame' = IF Row(df, index).link = new_link THEN nSame + 1 ELSE nSame
                /\ row' = [row EXCEPT !.new_link = new_link, !.search_url = call.ret_url]
                /\ calls' = Append(calls, [op |-> "cover", arg |-> new_link])
                /\ call' = [NoCall EXCEPT !.im = call.im, !.url = new_link]
                /\ pc' = "cover_fetch"
           ELSE /\ df' = df
                /\ nMut' = nMut
                /\ nSame' = nSame
                /\ row' = [row EXCEPT !.search_url = call.ret_url,
                                      !.file_status = "not Found"]
                /\ calls' = calls
                /\ call' = NoCall
                /\ pc' = "log"
    /\ ev' = {}
    /\ UNCHANGED << input_file, ncols, output_file, log_file, index, delayed, failed,
                    acc, startMode, goTyped >>

(***************************************************************************)
(* The end of process_row.                                                 *)
(***************************************************************************)
OrEmpty(s) == IF s # "" THEN s ELSE "empty"

\* Lines 402-411.
log_entry(i, r) ==
    [row |-> i, title |-> r.comic_name, link |-> OrEmpty(r.current_link),
     status |-> r.file_status, search_url |-> OrEmpty(r.search_url),
     cover_url |-> OrEmpty(r.cover_url)]

\* Lines 398-414.
Log ==
    /\ pc = "log"
    /\ log_file' = Append(log_file, log_entry(index, row))
    /\ pc' = IF interactive_mode /\ row.updated THEN "pause" ELSE "persist"
    /\ ev' = {}
    /\ UNCHANGED << input_file, ncols, df, output_file, interactive_mode, index, row,
                    call, delayed, nMut, nSame, calls, failed, acc, startMode, goTyped >>

\* Lines 415-417.
Pause ==
    /\ pc = "pause"
    /\ \E user_input \in UserInputs :
        LET w == wait_for_user(interactive_mode, user_input)
        IN  /\ interactive_mode' = w.mode
            /\ ev' = IF w.prompted THEN {"prompt"} ELSE {}
            /\ goTyped' = (goTyped \/ (w.prompted /\ ~w.mode))
    /\ pc' = "persist"
    /\ UNCHANGED << input_file, ncols, df, output_file, log_file, index, row, call,
                    delayed, nMut, nSame, calls, failed, acc, startMode >>

Next ==
    \/ Load
    \/ SkipRow
    \/ EnterRow
    \/ CoverFetch
    \/ CoverWait
    \/ ImportFetch
    \/ ImportWait
    \/ SearchFetch
    \/ SearchWait
    \/ ScanResult
    \/ ScanLink
    \/ ScanEnd
    \/ AlbumFetch
    \/ AlbumWait
    \/ SearchReturn
    \/ Log
    \/ Pause
    \/ Persist

Spec == Init /\ [][Next]_vars


(***************************************************************************)
(* The vocabulary of the properties.  They speak of the input row as the   *)
(* specification does: a cell's text is its whitespace-trimmed content,    *)
(* an empty spreadsheet cell has no text.                                  *)
(***************************************************************************)
Text(v) == IF v = NaN THEN "" ELSE strip(v)
Cur == Row(input_file, index)
LinkPresent(r) == Text(r.link) # ""
CoverValid(r) ==
    /\ Text(r.cover) # ""
    /\ startswith(Text(r.cover), "http")
    /\ Len(Text(r.cover)) >= MIN_COVER_LENGTH
Eligible(i) ==
    /\ i >= DATA_START
    /\ i < Len(input_file)
    /\ Text(Row(input_file, i).title) # ""
\* The rows process_excel_file hands to process_row: below the header rows,
\* with a title cell that is not empty (it may be blank).
Handled(i) ==
    /\ i >= DATA_START
    /\ i < Len(input_file)
    /\ Row(input_file, i).title # NaN
InRow == pc \notin {"load", "loop", "done", "aborted"}
Resolved == pc \in {"log", "pause", "persist"}
FetchPcs == {"import_fetch", "search_fetch", "album_fetch", "cover_fetch"}
AllComplete ==
    \A i \in 0..(Len(input_file) - 1) :
        Eligible(i) => LinkPresent(Row(input_file, i)) /\ CoverValid(Row(input_file, i))
Last(q) == q[Len(q)]

\* C1: while an eligible row with a link and a valid cover is processed no
\* lookup is called, no fetch is made and no cell is written; and a run over
\* a table whose eligible rows are all complete makes no fetch and no write.
C1_CompleteRowUntouched ==
    /\ (InRow /\ Eligible(index) /\ LinkPresent(Cur) /\ CoverValid(Cur)) =>
          /\ pc \in {"log", "persist"}
          /\ calls = << >>
          /\ "fetch" \notin ev
          /\ ~row.updated
          /\ Row(df, index) = Cur
    /\ \/ /\ pc \notin FetchPcs
          /\ "fetch" \notin ev
          /\ nMut = 0
          /\ df = input_file
          /\ output_file \in {Absent, input_file}
       \/ pc = "load"
       \/ ~AllComplete

\* C1 witness: a finished run over a table with two eligible rows, all complete.
C1_Witness ==
    /\ pc = "done"
    /\ AllComplete
    /\ Len(log_file) = 2
    /\ output_file = input_file

\* C2: an eligible row with a link and an invalid cover gets exactly one
\* cover lookup, of the existing link, and no search; its link cell is never
\* changed and its cover cell is written only with the cover the lookup
\* returned.
C2_CoverOnly ==
    (InRow /\ Eligible(index) /\ LinkPresent(Cur) /\ ~CoverValid(Cur)) =>
        /\ pc \in {"cover_fetch", "cover_wait", "log", "pause", "persist"}
        /\ calls = << [op |-> "cover", arg |-> Text(Cur.link)] >>
        /\ pc = "cover_fetch" => call.url = Text(Cur.link)
        /\ Row(df, index).link = Cur.link
        /\ Row(df, index).title = Cur.title
        /\ \/ Row(df, index).cover = Cur.cover /\ (Resolved => row.cover_url = None \/ row.cover_url = Cur.cover)
           \/ Resolved /\ row.cover_url # None /\ Row(df, index).cover = row.cover_url

\* C2 witness: such a row, its cover found and written.
C2_Witness ==
    /\ pc = "persist"
    /\ Eligible(index) /\ LinkPresent(Cur) /\ ~CoverValid(Cur)
    /\ Cur.cover = Cover14
    /\ Row(df, index).cover = AbsCover

\* C3: an eligible row without a link gets exactly one search, of its title;
\* when the search returns no link the outcome is "not Found", no cover
\* lookup is called and no cell of the table is changed.
C3_SearchOnce ==
    (InRow /\ Eligible(index) /\ ~LinkPresent(Cur)) =>
        /\ Len(calls) >= 1
        /\ calls[1] = [op |-> "search", arg |-> Text(Cur.title)]
        /\ \A k \in 2..Len(calls) : calls[k].op = "cover"
        /\ pc = "search_wait" => call.ret_url = SEARCH_URL \o "?s=" \o Text(Cur.title)
        /\ (Resolved /\ row.new_link = None) =>
              /\ row.file_status = "not Found"
              /\ Len(calls) = 1
              /\ ~row.updated
              /\ \A j \in index..(Len(df) - 1) : Row(df, j) = Row(input_file, j)
              /\ output_file # Absent =>
                    \A j \in 0..(index - 1) : Row(df, j) = Row(output_file, j)

\* C3 witness: the search went through, its results held no link.
C3_Witness ==
    /\ pc = "persist"
    /\ Eligible(index) /\ ~LinkPresent(Cur)
    /\ row.file_status = "not Found"
    /\ row.search_url # IMPORT_URL
    /\ call = NoCall

\* C4 as stated: the link accepted is that of a candidate whose display text
\* equals the title, case-insensitively and trimmed.
C4_AcceptedTextEqualsTitle ==
    (Resolved /\ row.new_link # None) =>
        lower(strip(acc.text)) = lower(strip(Cur.title))

\* C4 as amended: the link accepted is the first bedetheque.com link met when
\* the anchors of the first RESULT_LIMIT results are scanned in order (an
\* anchor to bedetheque.com, or the link of the album page an /album/ anchor
\* leads to); no bedetheque.com anchor is passed over, the display text is
\* not compared; without such a link the outcome is "not Found" and the row
\* is unchanged.
C4_FirstBedethequeLink ==
    /\ pc \in {"scan", "album_fetch", "album_wait", "search_ret"} =>
          /\ call.rpos <= RESULT_LIMIT
          /\ ~acc.passed
          /\ call.ret # None => (pc = "search_ret" /\ call.ret = BedeUrl(acc.text))
    /\ (InRow /\ row.new_link # None) =>
          /\ contains(row.new_link, "bedetheque.com")
          /\ row.new_link = BedeUrl(acc.text)
          /\ ~acc.passed
          /\ Row(df, index).link = row.new_link
    /\ (Resolved /\ row.branch = "search" /\ row.new_link = None) =>
          /\ row.file_status = "not Found"
          /\ Row(df, index) = Cur

\* C4 witness: a link was accepted from a result whose text is not the title.
C4_Witness ==
    /\ pc = "persist"
    /\ row.new_link # None
    /\ lower(strip(acc.text)) # lower(strip(Cur.title))
    /\ Row(df, index).link = row.new_link


\* The cells in which table t differs from the input file.
Columns == {"title", "link", "cover"}
ChangedCells(t) ==
    { << i, c >> \in (0..(Len(input_file) - 1)) \X Columns :
          Row(t, i)[c] # Row(input_file, i)[c] }
EligibleBefore(i) == { j \in 0..(i - 1) : Eligible(j) }
HandledBefore(i) == { j \in 0..(i - 1) : Handled(j) }

\* The audit log holds one line for each eligible row before row i, in
\* increasing row order.
LogInRowOrder(i) ==
    /\ Len(log_file) = Cardinality(EligibleBefore(i))
    /\ \A k \in 1..Len(log_file) : log_file[k].row \in EligibleBefore(i)
    /\ \A k \in 1..(Len(log_file) - 1) : log_file[k].row < log_file[k + 1].row

C6_OutputLagsOneRow ==
    /\ InRow =>
          IF HandledBefore(index) = {}
          THEN output_file = Absent
          ELSE /\ Len(output_file) = Len(df)
               /\ \A j \in 0..(Len(df) - 1) :
                     Row(output_file, j) = IF j = index THEN Cur ELSE Row(df, j)
    /\ (pc \in {"loop", "done"} /\ HandledBefore(index) # {}) => output_file = df

\* C6 witness: the row in progress has been updated, an earlier row too, and
\* the file holds the earlier update only.
C6_Witness ==
    /\ pc = "log"
    /\ Row(df, index) # Cur
    /\ \E j \in 0..(index - 1) : Row(df, j) # Row(input_file, j)
    /\ output_file # Absent
    /\ Row(output_file, index) = Cur

\* C7 as stated: when the run finishes after the final row the output file
\* holds the final table.
C7_OutputWrittenAtEnd ==
    pc = "done" => output_file = df

\* C8: once process_excel_file's mode is non-interactive it stays so, and no
\* step taken from then on prompts the operator.
C8_ModeLatch ==
    [][ ~interactive_mode => (~interactive_mode' /\ "prompt" \notin ev') ]_vars

\* C8 witness: a run started interactive, now non-interactive, has written a
\* row's cover and gone from the log line to the persist without a pause.
C8_Witness ==
    /\ startMode
    /\ ~interactive_mode
    /\ pc = "persist"
    /\ row.branch = "cover"
    /\ row.updated
    /\ ev = {}

\* C9 as stated: in non-interactive mode a fetch is made only after a sleep
\* since the previous fetch.
C9_DelayBeforeEveryFetch ==
    (pc \in FetchPcs /\ ~interactive_mode) => delayed

\* C10: a fetch that fails leaves the run going: a failed search returns no
\* link and the row is unchanged and logged "not Found"; a failed cover
\* fetch returns no cover and the cover cell is unchanged; the row is logged
\* and persisted and the loop goes on.
C10_FetchFailureRecovered ==
    /\ "fail" \in ev => pc \in {"search_ret", "scan", "log"}
    /\ pc = "aborted" => df = input_file /\ log_file = << >>
    /\ (InRow /\ "search" \in failed) =>
          /\ pc \in {"search_ret", "log", "persist"}
          /\ Row(df, index) = Cur
          /\ Len(calls) = 1
          /\ pc = "search_ret" => call.ret = None
          /\ pc # "search_ret" => row.new_link = None /\ row.file_status = "not Found"
    /\ (InRow /\ "cover" \in failed) =>
          /\ pc \in {"log", "pause", "persist"}
          /\ row.cover_url = None
          /\ Row(df, index).cover = Cur.cover
    /\ (pc \in {"loop", "done"} /\ failed # {}) =>
          /\ log_file # << >>
          /\ Handled(Last(log_file).row)
          /\ \A j \in (Last(log_file).row + 1)..(index - 1) : ~Handled(j)
          /\ Last(log_file).status \in {"not Found", "Found (no cover)", "Found (new)"}
          /\ Last(log_file).cover_url = "empty"
          /\ output_file = df

\* C10 witness: a row whose search fetch failed was logged, and the row
\* after it has been processed and logged too.
C10_Witness ==
    /\ pc = "done"
    /\ Len(log_file) = 2
    /\ log_file[1].search_url = IMPORT_URL
    /\ log_file[1].status = "not Found"
    /\ "cover" \in failed
    /\ output_file = df


\* C11 as stated: whenever the run is blocked at the post-row prompt the
\* row's log line is written and the output file already holds the table
\* with the row's updates.
C11_PersistedBeforePause ==
    pc = "pause" =>
        /\ log_file # << >>
        /\ Last(log_file).row = index
        /\ output_file = df


\* C12 as stated: once the operator has answered 'go' at a prompt of the run,
\* whichever prompt it was, no later step of the run prompts the operator.
C12_GoStopsPrompts ==
    [][ goTyped => "prompt" \notin ev' ]_vars

====
